---- MODULE Spec2Model ----
(***************************************************************************)
(* Behavioural threat engine of InfosysQSecure: the session threat history *)
(* (AIThreatAnalyzer.record_threat, EnterpriseThreatDashboard              *)
(* .add_threat_event), the zero-trust incident list and security score     *)
(* (ZeroTrustSecuritySystem.record_security_incident), the speed           *)
(* categorizers, the rule-based classification, analyze_threat with its    *)
(* language-model path, the detector confidences of compare_algorithms,    *)
(* and two interleavings of one session: concurrent record calls, and      *)
(* script runs that fit and read the detector models.                      *)
(*                                                                         *)
(* Units: typing speeds are held in tenths of a keystroke per second       *)
(* (2.0 k/s is 20), mouse speeds in whole pixels per second.               *)
(***************************************************************************)
EXTENDS Integers, Sequences, FiniteSets, TLC

VARIABLES
    threat_history,     \* st.session_state.threat_history
    active_threats,     \* st.session_state.active_threats
    security_posture,   \* st.session_state.security_posture
    clock,              \* datetime.now(): one tick per recording call
    calls,              \* log of every entry handed to the threat history
    security_incidents, \* st.session_state.security_incidents
    security_score,     \* st.session_state.security_score
    threat_patterns,    \* self.threat_patterns, in definition order
    typing_speed,       \* user_data['typing_speed'], tenths of a keystroke/s
    mouse_speed,        \* user_data['mouse_speed'], pixels/s
    typing_category,    \* category handed to the rule-based analysis
    mouse_category,     \* category handed to the rule-based analysis
    if_is_anomaly,      \* isolation_forest_result['is_anomaly']
    svm_is_anomaly,     \* one_class_svm_result['is_anomaly']
    matched,            \* matched_patterns as the matching loop leaves it
    analysis,           \* the verdict returned by the last analysis
    pending,            \* the analyze_threat call waiting for the model
    derived,            \* the locals of the last rule-based analysis
    api_key,            \* self.api_key of the analyzer
    if_score,           \* isolation_forest.decision_function, thousandths
    if_prediction,      \* isolation_forest.predict: -1 or 1
    svm_score,          \* one_class_svm.decision_function, thousandths
    svm_prediction,     \* one_class_svm.predict: -1 or 1
    results,            \* results_dict returned by compare_algorithms
    pc,                 \* the statement each concurrent record call is at
    local,              \* the arguments of each concurrent record call
    start,              \* the session as the concurrent calls found it
    zero_trust_initialized, \* 'zero_trust_initialized' in st.session_state
    behavioral_models,  \* st.session_state.behavioral_models: name -> fit
    script_pc,          \* the statement each script run of the session is at
    if_model,           \* check_user_behavior's local if_model, per run
    svm_model,          \* check_user_behavior's local svm_model, per run
    gemini_api_key,     \* st.session_state.gemini_api_key
    script_runs,        \* runs of app.py in the session so far
    last_run,           \* what the last run of app.py did
    last_click,         \* the last click on a button of the incident list
    normal_baseline,    \* rows of st.session_state.normal_baseline
    fit_error           \* the exception that ended each run's construction

vars == <<threat_history, active_threats, security_posture, clock, calls,
          security_incidents, security_score, threat_patterns, typing_speed,
          mouse_speed, typing_category, mouse_category, if_is_anomaly,
          svm_is_anomaly, matched, analysis, derived, api_key, if_score,
          if_prediction, svm_score, svm_prediction, results, pc, local,
          start, zero_trust_initialized, behavioral_models, script_pc,
          if_model, svm_model, gemini_api_key, script_runs, last_run,
          last_click, normal_baseline, fit_error, pending>>

histVars == <<threat_history, active_threats, security_posture, clock, calls>>
incVars == <<security_incidents, security_score>>
inputVars == <<threat_patterns, typing_speed, mouse_speed, if_is_anomaly,
               svm_is_anomaly>>
ruleVars == <<typing_category, mouse_category, matched, analysis, derived,
              pending>>
scoreVars == <<if_score, if_prediction, svm_score, svm_prediction, results>>
concVars == <<pc, local, start>>
fitVars == <<zero_trust_initialized, behavioral_models, script_pc, if_model,
             svm_model>>
appVars == <<gemini_api_key, script_runs, last_run>>
uiVars == <<last_click>>
corpusVars == <<normal_baseline, fit_error>>
sessVars == <<api_key, scoreVars, concVars, fitVars, appVars, uiVars,
              corpusVars>>

----------------------------------------------------------------------------
(* Bounds of the exploration.                                              *)

\* recording calls explored in one session
MaxClock == 52
\* leading history calls of a session that draw their input freely
MaxLead == 1
\* record_security_incident calls explored in one session
MaxIncidents == 8
\* incidents of a level other than the filler level "Critical"
MaxOtherLevels == 2
\* rule-based analyses of one sample explored in one session
MaxAnalyses == 2
\* runs of app.py explored in one session
MaxRuns == 4
\* clicks on the buttons of the incident list explored in one session
MaxClicks == 2

----------------------------------------------------------------------------
(* Threat levels.                                                          *)

\* the five severity levels of the rule engine
SeverityLevels == {"Critical", "High", "Medium", "Low", "None"}

\* every level string a caller can hand to a recording call: the five
\* severities, "Unknown" (analyze_threat, unparsed model answer) and "Error"
ThreatLevelInputs == SeverityLevels \cup {"Unknown", "Error"}

\* the sample whose verdict is recorded (typing 4.6 k/s, mouse 310 px/s)
SampleInputs ==
    {[typing_speed |-> 46, mouse_speed |-> 310,
      if_verdict |-> "Normal", svm_verdict |-> "Normal"]}

----------------------------------------------------------------------------
(* AIThreatAnalyzer.record_threat                                          *)

\* capacity of the threat history
HistoryCap == 50

\* pop() in place of pop(0): the newest entry is dropped
Pop0_Newest(s) == SubSeq(s, 1, Len(s) - 1)

\* pop(0)
Pop0(s) == SubSeq(s, 2, Len(s))

\* the list after `append(threat)` and the trim to the last 50
TrimHistory(h) == IF Len(h) > HistoryCap THEN Pop0(h) ELSE h

ThreatEntry(now, threat_level, s) ==
    [timestamp |-> now,
     threat_level |-> threat_level,
     typing_speed |-> s.typing_speed,
     mouse_speed |-> s.mouse_speed,
     isolation_forest_verdict |-> s.if_verdict,
     one_class_svm_verdict |-> s.svm_verdict]

IsThreatEntry(e) == "typing_speed" \in DOMAIN e

\* The explored sessions draw the level of a verdict freely before MaxLead
\* records were written and once HistoryCap records were written; the
\* verdicts in between are of the level "None".
FreeInput == clock < MaxLead \/ clock >= HistoryCap

\* the verdicts handed to record_threat so far, in call order
Recorded == SelectSeq(calls, IsThreatEntry)

\* a record_threat that keeps verdicts of level None out of the history
DoRecordThreat_Silent(threat_level, s) ==
    /\ clock' = clock + 1
    /\ threat_history' =
          IF threat_level = "None" THEN threat_history
          ELSE TrimHistory(Append(threat_history,
                                  ThreatEntry(clock', threat_level, s)))
    /\ calls' =
          IF threat_level = "None" THEN calls
          ELSE Append(calls, ThreatEntry(clock', threat_level, s))
    /\ UNCHANGED <<active_threats, security_posture>>

\* the body of record_threat
DoRecordThreat(threat_level, s) ==
    /\ clock' = clock + 1
    /\ threat_history' =
          TrimHistory(Append(threat_history, ThreatEntry(clock', threat_level, s)))
    /\ calls' = Append(calls, ThreatEntry(clock', threat_level, s))
    /\ UNCHANGED <<active_threats, security_posture>>

RecordThreat(threat_level, s) ==
    /\ clock < MaxClock
    /\ threat_level # "None" => FreeInput
    /\ DoRecordThreat(threat_level, s)
    /\ UNCHANGED <<incVars, inputVars, ruleVars, sessVars>>

----------------------------------------------------------------------------
(* EnterpriseThreatDashboard.add_threat_event                              *)

ThreatEvent(now, threat_level, details, source) ==
    [timestamp |-> now,
     threat_level |-> threat_level,
     details |-> details,
     source |-> source,
     status |-> IF threat_level \in {"Critical", "High"}
                THEN "Active" ELSE "Monitoring"]

Max(a, b) == IF a >= b THEN a ELSE b
Min(a, b) == IF a <= b THEN a ELSE b

PostureAfter(posture, threat_level) ==
    CASE threat_level = "Critical" -> Max(40, posture - 20)
      [] threat_level = "High" -> Max(60, posture - 10)
      [] threat_level = "Medium" -> Max(70, posture - 5)
      [] OTHER -> posture

\* add_threat_event at the time `now` on the history h, the active threats a
\* and the posture p
add_threat_event(h, a, p, now, threat_level, details, source) ==
    [threat_history |->
        Append(h, ThreatEvent(now, threat_level, details, source)),
     active_threats |->
        IF threat_level \in {"Critical", "High"}
        THEN Append(a, ThreatEvent(now, threat_level, details, source))
        ELSE a,
     security_posture |-> PostureAfter(p, threat_level)]

----------------------------------------------------------------------------
(* ZeroTrustSecuritySystem.record_security_incident                        *)

Incident(now, threat_level, s, if_verdict, svm_verdict) ==
    [timestamp |-> now,
     threat_level |-> threat_level,
     details |-> [typing_speed |-> s.typing_speed,
                  mouse_speed |-> s.mouse_speed,
                  isolation_forest |-> IF if_verdict THEN "Suspicious" ELSE "Normal",
                  one_class_svm |-> IF svm_verdict THEN "Suspicious" ELSE "Normal"],
     status |-> "Active",
     source |-> "Biometric Analysis"]

\* score_impact.get(threat_level, 0)
ScoreImpact(threat_level) ==
    CASE threat_level = "Critical" -> -50
      [] threat_level = "High" -> -30
      [] threat_level = "Medium" -> -15
      [] threat_level = "Low" -> -5
      [] threat_level = "None" -> 0
      [] threat_level = "Error" -> -10
      [] OTHER -> 0

\* the update without its floor
ScoreAfter_NoFloor(score, threat_level) ==
    Min(1000, score + ScoreImpact(threat_level))

\* the update with the Medium and Low penalties exchanged
ScoreAfter_Swapped(score, threat_level) ==
    Max(500, Min(1000, score + ScoreImpact(
        CASE threat_level = "Medium" -> "Low"
          [] threat_level = "Low" -> "Medium"
          [] OTHER -> threat_level)))

ScoreAfter(score, threat_level) ==
    Max(500, Min(1000, score + ScoreImpact(threat_level)))

OtherLevelCount(h) ==
    Cardinality({i \in DOMAIN h : h[i].threat_level # "Critical"})

RecordSecurityIncident(threat_level, s, if_verdict, svm_verdict) ==
    /\ Len(security_incidents) < MaxIncidents
    /\ threat_level # "Critical" => OtherLevelCount(security_incidents) < MaxOtherLevels
    /\ clock' = clock + 1
    /\ security_incidents' =
          Append(security_incidents,
                 Incident(clock', threat_level, s, if_verdict, svm_verdict))
    /\ security_score' = ScoreAfter(security_score, threat_level)
    /\ UNCHANGED <<threat_history, active_threats, security_posture, calls>>
    /\ UNCHANGED <<inputVars, ruleVars, sessVars>>

----------------------------------------------------------------------------
(* get_typing_category / get_mouse_category                                *)

Categories == {"very_slow", "slow", "normal", "fast", "very_fast"}

\* self.typing_thresholds, in tenths of a keystroke per second
typing_thresholds ==
    [very_slow |-> 20, slow |-> 35, normal |-> 55, fast |-> 75, very_fast |-> 100]

\* self.mouse_thresholds, in pixels per second
mouse_thresholds ==
    [very_slow |-> 100, slow |-> 200, normal |-> 400, fast |-> 600, very_fast |-> 800]

\* the elif chain of both categorizers: <<category, description>>
CategoryOf(speed, thresholds) ==
    IF speed < thresholds.very_slow THEN <<"very_slow", "extremely slow">>
    ELSE IF speed < thresholds.slow THEN <<"slow", "very slow">>
    ELSE IF speed < thresholds.normal THEN <<"normal", "normal">>
    ELSE IF speed < thresholds.fast THEN <<"fast", "fast">>
    ELSE <<"very_fast", "extremely fast">>

\* the chain with its second comparison inclusive
get_typing_category_Inclusive(speed) ==
    IF speed < typing_thresholds.very_slow THEN <<"very_slow", "extremely slow">>
    ELSE IF speed <= typing_thresholds.slow THEN <<"slow", "very slow">>
    ELSE CategoryOf(speed, typing_thresholds)

get_typing_category(speed) == CategoryOf(speed, typing_thresholds)

\* the mouse categorizer reading the typing thresholds
get_mouse_category_TypingTable(speed) == CategoryOf(speed, typing_thresholds)

get_mouse_category(speed) == CategoryOf(speed, mouse_thresholds)

\* the value of a category variable before the categorizers ran
NotCategorized == "not categorized"

\* analyze_threat, lines 157-165: the sample is read and categorized
Categorize ==
    /\ typing_category = NotCategorized
    /\ typing_category' = get_typing_category(typing_speed)[1]
    /\ mouse_category' = get_mouse_category(mouse_speed)[1]
    /\ UNCHANGED <<histVars, incVars, inputVars, matched, analysis, derived,
                   pending, sessVars>>

----------------------------------------------------------------------------
(* The pattern library and _rule_based_analysis                            *)

\* self.threat_patterns: the dict in insertion order, one entry per key
DefaultPatterns ==
    << [name |-> "bot_pattern",
        description |-> "Automated bot or script activity",
        conditions |->
          << [typing |-> "very_fast", mouse |-> "very_slow", consistency |-> "high"],
             [typing |-> "very_fast", mouse |-> "very_fast", consistency |-> "high"] >>,
        threat_level |-> "Critical"],
       [name |-> "advanced_attacker",
        description |-> "Advanced human attacker with tools",
        conditions |->
          << [typing |-> "normal", mouse |-> "fast",
              if_suspicious |-> TRUE, svm_suspicious |-> TRUE] >>,
        threat_level |-> "High"],
       [name |-> "unusual_behavior",
        description |-> "Unusual behavior patterns",
        conditions |->
          << [typing |-> "very_slow", mouse |-> "very_fast"],
             [typing |-> "fast", mouse |-> "very_slow"] >>,
        threat_level |-> "Medium"],
       [name |-> "possible_shared_account",
        description |-> "Possible shared account or different user",
        conditions |->
          << [typing |-> "normal", mouse |-> "normal",
              one_algorithm_suspicious |-> TRUE] >>,
        threat_level |-> "Medium"],
       [name |-> "learning_user",
        description |-> "Legitimate user learning the system",
        conditions |->
          << [typing |-> "slow", mouse |-> "slow",
              one_algorithm_suspicious |-> TRUE] >>,
        threat_level |-> "Low"],
       [name |-> "normal_user",
        description |-> "Normal user behavior",
        conditions |->
          << [typing |-> "normal", mouse |-> "normal",
              if_suspicious |-> FALSE, svm_suspicious |-> FALSE] >>,
        threat_level |-> "None"] >>

\* Broad patterns added to the library to make patterns overlap: the
\* patterns of the default library never match two at a time.
BroadPatterns ==
    << [name |-> "slow_input",
        description |-> "Slow typing or slow mouse",
        conditions |-> << [typing |-> "very_slow"], [mouse |-> "very_slow"] >>,
        threat_level |-> "Low"],
       [name |-> "flagged",
        description |-> "Flagged by a detector",
        conditions |-> << [one_algorithm_suspicious |-> TRUE] >>,
        threat_level |-> "Medium"],
       [name |-> "forest_flagged",
        description |-> "Flagged by the isolation forest",
        conditions |-> << [if_suspicious |-> TRUE] >>,
        threat_level |-> "Medium"],
       [name |-> "confirmed",
        description |-> "Flagged by both detectors",
        conditions |-> << [if_suspicious |-> TRUE, svm_suspicious |-> TRUE] >>,
        threat_level |-> "High"] >>

Reverse(s) == [i \in 1..Len(s) |-> s[Len(s) + 1 - i]]

\* the libraries the rule engine is run on: the default one and the default
\* one with the broad patterns defined before it, after it, and reversed
PatternLibraries ==
    {DefaultPatterns,
     BroadPatterns \o DefaultPatterns,
     DefaultPatterns \o Reverse(BroadPatterns),
     Reverse(BroadPatterns \o DefaultPatterns)}

\* self.threat_patterns[name]
PatternNamed(lib, name) ==
    lib[CHOOSE i \in DOMAIN lib : lib[i].name = name]

\* abs(typing_speed - mouse_speed/100) in hundredths, computed exactly
Distance(tspeed, mspeed) ==
    IF 10 * tspeed >= mspeed THEN 10 * tspeed - mspeed
                             ELSE mspeed - 10 * tspeed

\* Line 260 subtracts in binary floating point. Of two decimal values that
\* lie exactly 2 apart, the doubles nearest to them lie less than 2 apart
\* for the pairs whose larger value, in tenths, is listed here (values up
\* to 30.0); for every other pair up to 30.0 the doubles lie 2 or more
\* apart, and a distance other than 2 is never moved across 2 by rounding.
RoundsBelowTwo ==
    {23, 28, 33, 38, 41, 46, 51, 56, 82, 87, 92, 97, 164, 169, 174, 179}

\* abs(typing_speed - mouse_speed/100) < 2 as the doubles decide it
DistanceBelowTwo(tspeed, mspeed) ==
    \/ Distance(tspeed, mspeed) < 200
    \/ /\ Distance(tspeed, mspeed) = 200
       /\ \E larger \in RoundsBelowTwo :
             10 * larger = Max(10 * tspeed, mspeed)

\* lines 254-260: the values the conditions are compared with
Derived(tcat, mcat, tspeed, mspeed, if_anom, svm_anom) ==
    [typing |-> tcat,
     mouse |-> mcat,
     consistency |->
        IF DistanceBelowTwo(tspeed, mspeed) THEN "high" ELSE "low",
     if_suspicious |-> if_anom,
     svm_suspicious |-> svm_anom,
     one_algorithm_suspicious |-> if_anom \/ svm_anom,
     both_algorithms_suspicious |-> if_anom /\ svm_anom]

\* lines 268-285: a key the condition lacks (condition.get gives None) matches
ConditionMatches(c, d) ==
    /\ "typing" \notin DOMAIN c \/ d.typing = c.typing
    /\ "mouse" \notin DOMAIN c \/ d.mouse = c.mouse
    /\ "consistency" \notin DOMAIN c \/ d.consistency = c.consistency
    /\ "if_suspicious" \notin DOMAIN c \/ d.if_suspicious = c.if_suspicious
    /\ "svm_suspicious" \notin DOMAIN c \/ d.svm_suspicious = c.svm_suspicious
    /\ "one_algorithm_suspicious" \notin DOMAIN c
          \/ d.one_algorithm_suspicious = c.one_algorithm_suspicious

\* the inner loop without its break: one append per matching condition
RECURSIVE AppendsFrom_NoBreak(_, _, _)
AppendsFrom_NoBreak(conds, i, d) ==
    IF i > Len(conds) THEN 0
    ELSE (IF ConditionMatches(conds[i], d) THEN 1 ELSE 0)
         + AppendsFrom_NoBreak(conds, i + 1, d)

\* lines 266-287, the inner loop from condition i on: how often the pattern
\* is appended; the break stops at the first matching condition
RECURSIVE AppendsFrom(_, _, _)
AppendsFrom(conds, i, d) ==
    IF i > Len(conds) THEN 0
    ELSE IF ConditionMatches(conds[i], d) THEN 1
    ELSE AppendsFrom(conds, i + 1, d)

\* lines 265-287, the outer loop from pattern i on
RECURSIVE MatchFrom(_, _, _)
MatchFrom(lib, i, d) ==
    IF i > Len(lib) THEN <<>>
    ELSE [k \in 1..AppendsFrom(lib[i].conditions, 1, d) |-> lib[i]]
         \o MatchFrom(lib, i + 1, d)

MatchedPatterns(lib, d) == MatchFrom(lib, 1, d)

\* the default taken from the wrong key
OrDefault_Learning(lib, m) ==
    IF m = <<>> THEN <<PatternNamed(lib, "learning_user")>> ELSE m

\* lines 289-291
OrDefault(lib, m) ==
    IF m = <<>> THEN <<PatternNamed(lib, "normal_user")>> ELSE m

\* threat_level_priority
threat_level_priority(level) ==
    CASE level = "Critical" -> 0
      [] level = "High" -> 1
      [] level = "Medium" -> 2
      [] level = "Low" -> 3
      [] level = "None" -> 4

\* an unstable insertion: a pattern goes before those of equal key
RECURSIVE InsertByPriority_Unstable(_, _)
InsertByPriority_Unstable(sorted, p) ==
    IF sorted = <<>> THEN <<p>>
    ELSE IF threat_level_priority(Head(sorted).threat_level)
               < threat_level_priority(p.threat_level)
         THEN <<Head(sorted)>> \o InsertByPriority_Unstable(Tail(sorted), p)
         ELSE <<p>> \o sorted

\* list.sort(key=...) is stable: a pattern goes behind those of equal key
RECURSIVE InsertByPriority(_, _)
InsertByPriority(sorted, p) ==
    IF sorted = <<>> THEN <<p>>
    ELSE IF threat_level_priority(Head(sorted).threat_level)
               <= threat_level_priority(p.threat_level)
         THEN <<Head(sorted)>> \o InsertByPriority(Tail(sorted), p)
         ELSE <<p>> \o sorted

\* the list left in definition order
SortByPriority_Unsorted(m) == m

\* line 295
RECURSIVE SortByPriority(_)
SortByPriority(m) ==
    IF m = <<>> THEN <<>>
    ELSE InsertByPriority(SortByPriority(SubSeq(m, 1, Len(m) - 1)), m[Len(m)])

\* lines 303-312: the sentence of the analysis text about the detectors
AnalysisText(threat_level) ==
    CASE threat_level = "Critical" ->
           "Both detection algorithms flagged this as suspicious activity"
      [] threat_level = "High" ->
           "Multiple detection algorithms confirmed this anomalous behavior pattern"
      [] threat_level = "Medium" ->
           "flagged by at least one of our detection algorithms"
      [] threat_level = "Low" ->
           "a low-confidence alert in one detection algorithm"
      [] OTHER ->
           "No anomalies were detected by either algorithm"

\* lines 293-300 and 319-323: the verdict built from the selected pattern
VerdictOf(lib, m) ==
    LET selected_pattern == SortByPriority(OrDefault(lib, m))[1]
    IN  [threat_level |-> selected_pattern.threat_level,
         description |-> selected_pattern.description,
         analysis |-> AnalysisText(selected_pattern.threat_level)]

\* the value of analysis and matched before an analysis ran
NoAnalysis == [threat_level |-> "not analyzed"]

\* no analyze_threat call is waiting for the language model
NoPending == [waiting |-> FALSE]

Verdict(is_anomaly) == IF is_anomaly THEN "Suspicious" ELSE "Normal"

\* AIThreatAnalyzer._rule_based_analysis on the categories handed to it; the
\* verdict is recorded in the threat history before it is returned
DoRuleBasedAnalysis(tcat, mcat) ==
    /\ derived' = Derived(tcat, mcat, typing_speed, mouse_speed,
                           if_is_anomaly, svm_is_anomaly)
    /\ matched' = MatchedPatterns(threat_patterns, derived')
    /\ analysis' = VerdictOf(threat_patterns, matched')
    /\ DoRecordThreat(analysis'.threat_level,
                      [typing_speed |-> typing_speed,
                       mouse_speed |-> mouse_speed,
                       if_verdict |-> Verdict(if_is_anomaly),
                       svm_verdict |-> Verdict(svm_is_anomaly)])

RuleBasedAnalysis ==
    /\ typing_category # NotCategorized
    /\ clock < MaxAnalyses
    /\ DoRuleBasedAnalysis(typing_category, mouse_category)
    /\ UNCHANGED <<incVars, inputVars, typing_category, mouse_category,
                   pending, sessVars>>

----------------------------------------------------------------------------
(* AIThreatAnalyzer.set_api_key, has_api_key and analyze_threat            *)

\* AIThreatAnalyzer.__init__, line 97: the analyzer starts without a key
NoApiKey == [none |-> TRUE]

\* a key string, as the sequence of the code points of its characters
Key(chars) == [chars |-> chars]

\* the characters str.strip() removes (those of str.isspace): tab to
\* carriage return, the four separators 28-31, the blank, NEL, the
\* no-break space and the Unicode spaces
Whitespace ==
    (9..13) \cup (28..32) \cup {133, 160, 5760} \cup (8192..8202)
        \cup {8232, 8233, 8239, 8287, 12288}

\* str.strip(): leading and trailing whitespace removed
RECURSIVE Strip(_)
Strip(chars) ==
    IF chars = <<>> THEN chars
    ELSE IF chars[1] \in Whitespace THEN Strip(SubSeq(chars, 2, Len(chars)))
    ELSE IF chars[Len(chars)] \in Whitespace
         THEN Strip(SubSeq(chars, 1, Len(chars) - 1))
    ELSE chars

\* lines 109-111
has_api_key(key) == key # NoApiKey /\ Strip(key.chars) # <<>>

\* lines 98-107; genai.configure keeps no state of the analyzer
SetApiKey(key) ==
    /\ api_key # key
    /\ api_key' = key
    /\ UNCHANGED <<histVars, incVars, inputVars, ruleVars, appVars, uiVars,
                   corpusVars,
                   scoreVars,
                   concVars, fitVars>>

\* Texts are sequences of characters. "Threat Level: " and the five level
\* names as they are written in lines 210-219:
ThreatLevelText ==
    <<"T", "h", "r", "e", "a", "t", " ", "L", "e", "v", "e", "l", ":", " ">>

LevelText(threat_level) ==
    CASE threat_level = "Critical" -> <<"C", "r", "i", "t", "i", "c", "a", "l">>
      [] threat_level = "High" -> <<"H", "i", "g", "h">>
      [] threat_level = "Medium" -> <<"M", "e", "d", "i", "u", "m">>
      [] threat_level = "Low" -> <<"L", "o", "w">>
      [] threat_level = "None" -> <<"N", "o", "n", "e">>

\* `phrase in text`: phrase is a substring of text
Contains(text, phrase) ==
    \E i \in 1..(Len(text) - Len(phrase) + 1) :
        SubSeq(text, i, i + Len(phrase) - 1) = phrase

\* lines 209-219: the elif chain over the model's answer
ParseThreatLevel(text) ==
    IF Contains(text, ThreatLevelText \o LevelText("Critical")) THEN "Critical"
    ELSE IF Contains(text, ThreatLevelText \o LevelText("High")) THEN "High"
    ELSE IF Contains(text, ThreatLevelText \o LevelText("Medium")) THEN "Medium"
    ELSE IF Contains(text, ThreatLevelText \o LevelText("Low")) THEN "Low"
    ELSE IF Contains(text, ThreatLevelText \o LevelText("None")) THEN "None"
    ELSE "Unknown"

\* generate_content raised: no answer text
GeminiFailure == <<"raised">>

\* lines 242-248: the verdict of the outer except
ErrorVerdict ==
    [error |-> "KeyError",
     recommendation |-> "An error occurred while analyzing the threat.",
     threat_level |-> "Error"]

\* the sample and the detector verdicts handed to record_threat
RecordedSample ==
    [typing_speed |-> typing_speed,
     mouse_speed |-> mouse_speed,
     if_verdict |-> Verdict(if_is_anomaly),
     svm_verdict |-> Verdict(svm_is_anomaly)]

\* AIThreatAnalyzer.analyze_threat, lines 139-202 and 240-248: the call up to
\* the request to the language model. `wellformed` tells whether user_data
\* and detection_results hold the keys read in lines 157-161. With a key
\* the call builds the prompt and waits for generate_content (line 203);
\* without one it runs the rule-based analysis and returns.
AnalyzeThreat(wellformed) ==
    /\ clock < MaxAnalyses
    /\ ~pending.waiting
    /\ IF ~wellformed
       THEN /\ analysis' = ErrorVerdict
            /\ UNCHANGED <<histVars, typing_category, mouse_category, matched,
                           derived, pending>>
       ELSE /\ typing_category' = get_typing_category(typing_speed)[1]
            /\ mouse_category' = get_mouse_category(mouse_speed)[1]
            /\ IF has_api_key(api_key)
               THEN /\ pending' = [waiting |-> TRUE]
                    /\ UNCHANGED <<histVars, matched, analysis, derived>>
               ELSE /\ DoRuleBasedAnalysis(typing_category', mouse_category')
                    /\ UNCHANGED pending
    /\ UNCHANGED <<incVars, inputVars, sessVars>>

\* analyze_threat, lines 203-235: generate_content returns `answer` or
\* raises. The answer is parsed, recorded and returned; when the call
\* raised, the rule-based analysis takes over.
GenerateContent(answer) ==
    /\ pending.waiting
    /\ pending' = NoPending
    /\ IF answer # GeminiFailure
       THEN /\ analysis' = [analysis |-> answer,
                            threat_level |-> ParseThreatLevel(answer),
                            timestamp |-> clock + 1]
            /\ DoRecordThreat(analysis'.threat_level, RecordedSample)
            /\ UNCHANGED <<matched, derived>>
       ELSE DoRuleBasedAnalysis(typing_category, mouse_category)
    /\ UNCHANGED <<incVars, inputVars, typing_category, mouse_category,
                   sessVars>>

----------------------------------------------------------------------------
(* The block of app.py, lines 276-296, that analyses a sample and reports  *)
(* the verdict: analyze_threat, which ends in record_threat, and then      *)
(* add_threat_event with the level of the verdict.                         *)

\* threat_level.lower()
Lower(threat_level) ==
    CASE threat_level = "Critical" -> "critical"
      [] threat_level = "High" -> "high"
      [] threat_level = "Medium" -> "medium"
      [] threat_level = "Low" -> "low"
      [] threat_level = "None" -> "none"
      [] threat_level = "Unknown" -> "unknown"
      [] threat_level = "Error" -> "error"

\* f"RAIN(tm) AI detected {level.lower()} risk behavior pattern"
EventDetails(threat_level) ==
    <<"RAIN AI detected ", Lower(threat_level), " risk behavior pattern">>

\* Line 276 and analyze_threat up to generate_content (lines 157-203):
\* without a key the block is skipped and nothing is written; with a key
\* the sample is categorized, the prompt built and the answer awaited.
BeginAnalysis ==
    /\ has_api_key(api_key)
    /\ ~pending.waiting
    /\ clock + 2 <= MaxClock
    /\ typing_category' = get_typing_category(typing_speed)[1]
    /\ mouse_category' = get_mouse_category(mouse_speed)[1]
    /\ pending' = [waiting |-> TRUE]
    /\ UNCHANGED <<histVars, incVars, inputVars, matched, analysis, derived,
                   sessVars>>

\* The rest of the block once generate_content returned `answer` or raised:
\* analyze_threat parses the answer, or runs the rule-based analysis when
\* the call raised, records the verdict with record_threat and returns it;
\* the block then hands the level of the verdict to add_threat_event. Both
\* verdicts are without an 'error' key.
HandleAnalysis(answer) ==
    LET failed == answer = GeminiFailure
        d == Derived(typing_category, mouse_category, typing_speed,
                     mouse_speed, if_is_anomaly, svm_is_anomaly)
        m == MatchedPatterns(threat_patterns, d)
        threat_analysis ==
            IF failed THEN VerdictOf(threat_patterns, m)
            ELSE [analysis |-> answer,
                  threat_level |-> ParseThreatLevel(answer),
                  timestamp |-> clock + 1]
        threat_level == threat_analysis.threat_level
        entry == ThreatEntry(clock + 1, threat_level, RecordedSample)
        recorded == TrimHistory(Append(threat_history, entry))
        event == ThreatEvent(clock + 2, threat_level,
                             EventDetails(threat_level),
                             "Real-Time Monitoring System")
        added == add_threat_event(recorded, active_threats, security_posture,
                                  clock + 2, threat_level,
                                  EventDetails(threat_level),
                                  "Real-Time Monitoring System")
    IN  /\ pending.waiting
        /\ threat_level # "None" => FreeInput
        /\ pending' = NoPending
        /\ analysis' = threat_analysis
        /\ derived' = IF failed THEN d ELSE derived
        /\ matched' = IF failed THEN m ELSE matched
        /\ clock' = clock + 2
        /\ threat_history' = added.threat_history
        /\ active_threats' = added.active_threats
        /\ security_posture' = added.security_posture
        /\ calls' = Append(Append(calls, entry), event)
        /\ UNCHANGED <<incVars, inputVars, typing_category, mouse_category,
                       sessVars>>

----------------------------------------------------------------------------
(* BiometricCollector.compare_algorithms, lines 439-460 and 532-548, and   *)
(* the same lines of ZeroTrustSecuritySystem.check_user_behavior: the      *)
(* detector verdicts and their confidence.                                 *)
(*                                                                         *)
(* Units: raw scores are held in thousandths, normalized scores in         *)
(* 1/3000 (1.0 is 3000), confidences in 1/30 of a point (100 is 3000).     *)

\* (if_score + 0.5) / 1.5
IfNormalized(score) == 2 * (score + 500)

\* 1 / (1 + np.exp(-svm_score)), rounded to 1/3000; the scores beyond
\* -9 and 9 round to 0.0 and 1.0, which np.exp's overflow to inf also gives
Sigmoid(score) ==
    CASE score <= -9000 -> 0
      [] score = -2000 -> 358
      [] score = -1000 -> 807
      [] score = -1 -> 1499
      [] score = 0 -> 1500
      [] score = 1 -> 1501
      [] score = 1000 -> 2193
      [] score = 2000 -> 2642
      [] score >= 9000 -> 3000

\* the confidence without max(0, min(100, ...))
Confidence_Unclamped(normalized, is_anomaly) ==
    IF ~is_anomaly THEN normalized ELSE 3000 - normalized

\* the two branches of the conditional exchanged
Confidence_Swapped(normalized, is_anomaly) ==
    Max(0, Min(3000, IF is_anomaly THEN normalized ELSE 3000 - normalized))

\* max(0, min(100, n * 100 if not is_anomaly else (1 - n) * 100))
Confidence(normalized, is_anomaly) ==
    Max(0, Min(3000, IF ~is_anomaly THEN normalized ELSE 3000 - normalized))

\* one entry of results_dict
DetectorResult(normalized, prediction) ==
    LET is_anomaly == prediction = -1
    IN  [is_anomaly |-> is_anomaly,
         confidence |-> Confidence(normalized, is_anomaly),
         verdict |-> Verdict(is_anomaly)]

\* lines 479-493
OverallVerdict(if_anom, svm_anom) ==
    IF if_anom /\ svm_anom THEN "SUSPICIOUS (Both Algorithms)"
    ELSE IF if_anom \/ svm_anom THEN "SUSPICIOUS (Single Algorithm)"
    ELSE "NORMAL"

\* the value of results before a sample was scored
NoResults == [overall_verdict |-> "not scored"]

\* compare_algorithms on the scores and predictions the fitted detectors
\* give for the sample
CompareAlgorithms ==
    /\ results = NoResults
    /\ results' =
          [isolation_forest |->
              DetectorResult(IfNormalized(if_score), if_prediction),
           one_class_svm |->
              DetectorResult(Sigmoid(svm_score), svm_prediction),
           overall_verdict |->
              OverallVerdict(if_prediction = -1, svm_prediction = -1)]
    /\ UNCHANGED <<histVars, incVars, inputVars, ruleVars, appVars, uiVars,
                   corpusVars,
                   api_key,
                   if_score,
                   if_prediction, svm_score, svm_prediction, concVars,
                   fitVars>>

----------------------------------------------------------------------------
(* Two record calls of one session running at once, each a call of        *)
(* record_threat (ai_threat_analyzer.py 342-355) or of                     *)
(* record_security_incident (zero_trust.py 663-689), one step per          *)
(* statement; the statement of lines 688-689 is two steps, the read of the *)
(* score and its store. Neither function takes a lock.                     *)

Threads == {1, 2}

\* the two functions a call can be of
RecordKinds == {"threat", "incident"}

NoCall == [threat_level |-> "no call"]
NoStart == [started |-> FALSE]

\* the sample each of the two calls records
ThreadSample(t) ==
    IF t = 1
    THEN [typing_speed |-> 46, mouse_speed |-> 310,
          if_verdict |-> "Suspicious", svm_verdict |-> "Normal"]
    ELSE [typing_speed |-> 90, mouse_speed |-> 650,
          if_verdict |-> "Suspicious", svm_verdict |-> "Suspicious"]

\* a record call made while no other one runs
SerialRecordThreat(threat_level, s) ==
    /\ \A t \in Threads : pc[t] = "idle"
    /\ RecordThreat(threat_level, s)

\* both calls are entered; each holds its arguments
BeginRecords(kinds, levels) ==
    /\ \A t \in Threads : pc[t] = "idle"
    /\ clock + Cardinality(Threads) <= MaxClock
    /\ pc' = [t \in Threads |->
                 IF kinds[t] = "threat" THEN "build" ELSE "ibuild"]
    /\ local' = [t \in Threads |->
                    [kind |-> kinds[t],
                     threat_level |-> levels[t],
                     s |-> ThreadSample(t),
                     built |-> NoCall,
                     score |-> 0]]
    /\ start' = [started |-> TRUE,
                 threat_history |-> threat_history,
                 security_incidents |-> security_incidents,
                 security_score |-> security_score]
    /\ UNCHANGED <<histVars, incVars, inputVars, ruleVars, appVars, uiVars,
                   corpusVars, api_key, scoreVars, fitVars>>

\* ai_threat_analyzer.py lines 342-349: the entry is built, datetime.now()
\* is read
ThreatBuild(t) ==
    /\ pc[t] = "build"
    /\ clock' = clock + 1
    /\ local' = [local EXCEPT ![t].built =
                    ThreatEntry(clock', local[t].threat_level, local[t].s)]
    /\ pc' = [pc EXCEPT ![t] = "append"]
    /\ UNCHANGED <<threat_history, active_threats, security_posture, calls,
                   incVars, inputVars, ruleVars, appVars, uiVars, corpusVars,
                   api_key, scoreVars, start, fitVars>>

\* line 351: the entry is appended
ThreatAppend(t) ==
    /\ pc[t] = "append"
    /\ threat_history' = Append(threat_history, local[t].built)
    /\ calls' = Append(calls, local[t].built)
    /\ pc' = [pc EXCEPT ![t] = "check"]
    /\ UNCHANGED <<active_threats, security_posture, clock, incVars, local, inputVars, ruleVars, appVars, uiVars, corpusVars,
                   api_key, scoreVars, start, fitVars>>

\* line 354: the length test
ThreatCheck(t) ==
    /\ pc[t] = "check"
    /\ pc' = [pc EXCEPT ![t] = IF Len(threat_history) > HistoryCap
                                THEN "pop" ELSE "done"]
    /\ UNCHANGED <<histVars, incVars, local, inputVars, ruleVars, appVars, uiVars, corpusVars,
                   api_key, scoreVars, start, fitVars>>

\* line 355: pop(0)
ThreatPop(t) ==
    /\ pc[t] = "pop"
    /\ threat_history' = Pop0(threat_history)
    /\ pc' = [pc EXCEPT ![t] = "done"]
    /\ UNCHANGED <<active_threats, security_posture, clock, calls, incVars, local, inputVars, ruleVars, appVars, uiVars, corpusVars,
                   api_key, scoreVars, start, fitVars>>

\* zero_trust.py lines 663-674: the incident is built, datetime.now() is
\* read
IncidentBuild(t) ==
    /\ pc[t] = "ibuild"
    /\ clock' = clock + 1
    /\ local' = [local EXCEPT ![t].built =
                    Incident(clock', local[t].threat_level, local[t].s,
                             TRUE, t = 2)]
    /\ pc' = [pc EXCEPT ![t] = "incident"]
    /\ UNCHANGED <<threat_history, active_threats, security_posture, calls,
                   incVars, inputVars, ruleVars, appVars, uiVars, corpusVars,
                   api_key, scoreVars, start, fitVars>>

\* line 676: the incident is appended
IncidentAppend(t) ==
    /\ pc[t] = "incident"
    /\ security_incidents' = Append(security_incidents, local[t].built)
    /\ pc' = [pc EXCEPT ![t] = "read"]
    /\ UNCHANGED <<histVars, security_score, local, inputVars, ruleVars, appVars, uiVars, corpusVars,
                   api_key, scoreVars, start, fitVars>>

\* lines 688-689, the right-hand side: the score is read
ScoreRead(t) ==
    /\ pc[t] = "read"
    /\ local' = [local EXCEPT ![t].score = security_score]
    /\ pc' = [pc EXCEPT ![t] = "store"]
    /\ UNCHANGED <<histVars, incVars, inputVars, ruleVars, appVars, uiVars, corpusVars,
                   api_key, scoreVars, start, fitVars>>

\* lines 688-689, the assignment: the moved score is stored
ScoreUpdate(t) ==
    /\ pc[t] = "store"
    /\ security_score' = ScoreAfter(local[t].score, local[t].threat_level)
    /\ pc' = [pc EXCEPT ![t] = "done"]
    /\ UNCHANGED <<histVars, security_incidents, local, inputVars, ruleVars, appVars, uiVars, corpusVars,
                   api_key, scoreVars, start, fitVars>>

----------------------------------------------------------------------------
(* Two script runs of one session, each constructing the security system   *)
(* (zero_trust.py 17-35, 140-170) and scoring a sample with it             *)
(* (check_user_behavior, lines 309 and 317), one step per statement. A     *)
(* stored model is named by the run that fitted it.                        *)

\* normal_count of generate_user_data: the rows of the normal baseline
NormalCount == 100

\* the rows of pd.DataFrame()
EmptyFrame == 0

\* normal_baseline before a construction stored it
NoBaseline == -1

\* behavioral_models = {}
NoModels == [k \in {} |-> 0]

\* a local that holds no model
NoModel == 0

\* behavioral_models[name] = model
StoreModel(models, name, model) ==
    [k \in DOMAIN models \cup {name} |-> IF k = name THEN model ELSE models[k]]

\* line 20: the constructor tests the flag; when it is set the constructor
\* returns and the run goes on to score its sample
CheckInitialized(t) ==
    /\ script_pc[t] = "construct"
    /\ script_pc' = [script_pc EXCEPT ![t] =
                        IF zero_trust_initialized THEN "read_if" ELSE "setup"]
    /\ UNCHANGED <<histVars, incVars, inputVars, ruleVars, appVars, uiVars,
                   corpusVars,
                   api_key,
                   scoreVars,
                   concVars, zero_trust_initialized, behavioral_models,
                   if_model, svm_model>>

\* lines 21-32: the flag is set and the session state of the system created
SetupSession(t) ==
    /\ script_pc[t] = "setup"
    /\ zero_trust_initialized' = TRUE
    /\ security_incidents' = <<>>
    /\ security_score' = 850
    /\ behavioral_models' = NoModels
    /\ script_pc' = [script_pc EXCEPT ![t] = "fit_if"]
    /\ UNCHANGED <<histVars, inputVars, ruleVars, appVars, uiVars,
                   corpusVars, api_key,
                   scoreVars, concVars,
                   if_model, svm_model>>

\* lines 143-159: the isolation forest is fitted and stored
StoreIsolationForest(t) ==
    /\ script_pc[t] = "fit_if"
    /\ normal_baseline' = NormalCount
    /\ UNCHANGED fit_error
    /\ behavioral_models' = StoreModel(behavioral_models, "isolation_forest", t)
    /\ script_pc' = [script_pc EXCEPT ![t] = "fit_svm"]
    /\ UNCHANGED <<histVars, incVars, inputVars, ruleVars, appVars, uiVars,
                  
                   api_key,
                   scoreVars,
                   concVars, zero_trust_initialized, if_model, svm_model>>

\* lines 143-151 when generate_user_data fails inside its try: the except of
\* lines 250-253 reports the error and returns two empty frames, which are
\* stored as the baselines and concatenated; selecting the two feature
\* columns of the empty frame raises KeyError (line 151), which leaves the
\* constructor and ends the script run.
GenerateFails(t) ==
    /\ script_pc[t] = "fit_if"
    /\ normal_baseline' = EmptyFrame
    /\ fit_error' = [fit_error EXCEPT ![t] = "KeyError"]
    /\ script_pc' = [script_pc EXCEPT ![t] = "failed"]
    /\ UNCHANGED <<histVars, incVars, inputVars, ruleVars, appVars, uiVars,
                   api_key, scoreVars, concVars, zero_trust_initialized,
                   behavioral_models, if_model, svm_model>>

\* lines 162-170: the one-class SVM is fitted and stored
StoreOneClassSvm(t) ==
    /\ script_pc[t] = "fit_svm"
    /\ behavioral_models' = StoreModel(behavioral_models, "one_class_svm", t)
    /\ script_pc' = [script_pc EXCEPT ![t] = "read_if"]
    /\ UNCHANGED <<histVars, incVars, inputVars, ruleVars, appVars, uiVars,
                   corpusVars,
                   api_key,
                   scoreVars,
                   concVars, zero_trust_initialized, if_model, svm_model>>

\* check_user_behavior, line 309: a missing key raises KeyError, which the
\* except of line 396 turns into an error result
ReadIsolationForest(t) ==
    /\ script_pc[t] = "read_if"
    /\ IF "isolation_forest" \in DOMAIN behavioral_models
       THEN /\ if_model' = [if_model EXCEPT
                               ![t] = behavioral_models["isolation_forest"]]
            /\ script_pc' = [script_pc EXCEPT ![t] = "read_svm"]
       ELSE /\ script_pc' = [script_pc EXCEPT ![t] = "error"]
            /\ UNCHANGED if_model
    /\ UNCHANGED <<histVars, incVars, inputVars, ruleVars, appVars, uiVars,
                   corpusVars,
                   api_key,
                   scoreVars,
                   concVars, zero_trust_initialized, behavioral_models,
                   svm_model>>

\* check_user_behavior, line 317
ReadOneClassSvm(t) ==
    /\ script_pc[t] = "read_svm"
    /\ IF "one_class_svm" \in DOMAIN behavioral_models
       THEN /\ svm_model' = [svm_model EXCEPT
                                ![t] = behavioral_models["one_class_svm"]]
            /\ script_pc' = [script_pc EXCEPT ![t] = "scored"]
       ELSE /\ script_pc' = [script_pc EXCEPT ![t] = "error"]
            /\ UNCHANGED svm_model
    /\ UNCHANGED <<histVars, incVars, inputVars, ruleVars, appVars, uiVars,
                   corpusVars,
                   api_key,
                   scoreVars,
                   concVars, zero_trust_initialized, behavioral_models,
                   if_model>>

----------------------------------------------------------------------------
(* The incident list of the security dashboard, zero_trust.py lines        *)
(* 842-921: the status filter, the cards of the filtered incidents, newest *)
(* first, and the Investigate and Resolve buttons of each card.            *)

\* the options of the multiselect "Filter by Status"
StatusOptions == {"Active", "Resolved", "Investigating"}

\* the statuses the two buttons write
ButtonStatuses == {"Investigating", "Resolved"}

\* the value of last_click before the first click
NoClick == [shown |-> 0, status |-> "none", clicks |-> 0]

\* The positions in security_incidents of the incidents of
\* filtered_incidents, in list order (lines 853-858). `cutoff` is
\* cutoff_date, datetime.now() - timedelta(days=filter_days), on the time
\* axis of the incidents' timestamps.
RECURSIVE FilteredPositions(_, _, _, _)
FilteredPositions(incidents, filter_status, cutoff, from) ==
    IF from > Len(incidents) THEN <<>>
    ELSE IF /\ incidents[from].timestamp >= cutoff
            /\ incidents[from].status \in filter_status
         THEN <<from>> \o FilteredPositions(incidents, filter_status, cutoff,
                                            from + 1)
         ELSE FilteredPositions(incidents, filter_status, cutoff, from + 1)

\* the position in security_incidents of the incident whose card is the
\* i-th of enumerate(reversed(filtered_incidents))
ShownPosition(incidents, filter_status, cutoff, i) ==
    LET filtered == FilteredPositions(incidents, filter_status, cutoff, 1)
    IN  filtered[Len(filtered) - i]

\* the position security_incidents[-(i+1)] of the buttons' assignment
WrittenPosition(incidents, i) == Len(incidents) - i

\* A click on the button of the i-th card that writes `status`, with
\* filter_status selected and the day slider giving `cutoff`, and the rerun
\* it requests. The time that passed since the incidents were recorded is
\* free: the cut-off lies anywhere up to just after the newest timestamp.
ClickIncident(filter_status, cutoff, i, status) ==
    /\ last_click.clicks < MaxClicks
    /\ security_incidents # <<>>
    /\ i < Len(FilteredPositions(security_incidents, filter_status, cutoff, 1))
    /\ security_incidents' =
          [security_incidents EXCEPT
              ![WrittenPosition(security_incidents, i)].status = status]
    /\ last_click' =
          [shown |-> ShownPosition(security_incidents, filter_status, cutoff, i),
           status |-> status,
           clicks |-> last_click.clicks + 1]
    /\ UNCHANGED <<histVars, security_score, inputVars, ruleVars, api_key,
                   scoreVars, concVars, fitVars, appVars, corpusVars>>

----------------------------------------------------------------------------
(* The readers of the shared threat history.                               *)

\* the fields show_threat_dashboard reads from the entries
DashboardFields ==
    {"timestamp", "threat_level", "typing_speed", "mouse_speed",
     "isolation_forest_verdict", "one_class_svm_verdict"}

\* the fields display_threat_timeline reads from the entries
TimelineFields == {"timestamp", "threat_level", "source", "details", "status"}

\* threat_level_map of show_threat_dashboard
threat_level_map ==
    [Critical |-> 5, High |-> 4, Medium |-> 3, Low |-> 2, None |-> 1,
     Error |-> 0, Unknown |-> 0]

\* level_map of display_threat_timeline, indexed as level_map[level]
level_map == [Critical |-> 4, High |-> 3, Medium |-> 2, Low |-> 1, None |-> 0]

----------------------------------------------------------------------------
(* One run of the script app.py. The import of line 13 raises              *)
(* IndentationError (zero_trust.py, line 362) in every run, so no run      *)
(* reaches the construction of the analyzer (line 126), the key            *)
(* initialisation (lines 173-176) or the page with the analyze button.     *)

\* the value of last_run before the first run
NoRun ==
    [error |-> "none", clicked |-> FALSE, key |-> FALSE, analysed |-> FALSE]

\* One run of app.py: it ends at line 13. No analyzer exists and the session
\* holds no key; no button is drawn, so no run handles a click.
ScriptRun ==
    /\ script_runs < MaxRuns
    /\ script_runs' = script_runs + 1
    /\ last_run' = [error |-> "IndentationError", clicked |-> FALSE,
                    key |-> has_api_key(api_key), analysed |-> FALSE]
    /\ UNCHANGED <<histVars, incVars, inputVars, ruleVars, api_key,
                   gemini_api_key, scoreVars, concVars, fitVars, uiVars,
                   corpusVars>>

----------------------------------------------------------------------------
(* Session construction: AIThreatAnalyzer.__init__,                        *)
(* EnterpriseThreatDashboard.__init__, ZeroTrustSecuritySystem.__init__.   *)

InitHistory ==
    /\ threat_history = <<>>
    /\ active_threats = <<>>
    /\ security_posture = 85
    /\ clock = 0
    /\ calls = <<>>

InitIncidents ==
    /\ security_incidents = <<>>
    /\ security_score = 850

\* the value of derived before an analysis ran
NoDerived == [consistency |-> "not derived"]

\* no sample scored yet
InitScores ==
    /\ if_score = 0
    /\ if_prediction = 1
    /\ svm_score = 0
    /\ svm_prediction = 1
    /\ results = NoResults

\* no record call under way
InitThreads ==
    /\ pc = [t \in Threads |-> "idle"]
    /\ local = [t \in Threads |-> NoCall]
    /\ start = NoStart

\* the session before its first script run: nothing of the security system
\* is in st.session_state
InitModels ==
    /\ zero_trust_initialized = FALSE
    /\ behavioral_models = NoModels
    /\ script_pc = [t \in Threads |-> "construct"]
    /\ if_model = [t \in Threads |-> NoModel]
    /\ svm_model = [t \in Threads |-> NoModel]
    /\ normal_baseline = NoBaseline
    /\ fit_error = [t \in Threads |-> "none"]

\* the session before the first run of app.py
InitApp ==
    /\ gemini_api_key = NoApiKey
    /\ script_runs = 0
    /\ last_run = NoRun
    /\ last_click = NoClick

InitSession ==
    /\ InitApp
    /\ api_key = NoApiKey
    /\ InitScores
    /\ InitThreads
    /\ InitModels

\* the analyzer as constructed, no sample analysed
InitAnalyzer ==
    /\ threat_patterns = DefaultPatterns
    /\ typing_speed = 46
    /\ mouse_speed = 310
    /\ if_is_anomaly = FALSE
    /\ svm_is_anomaly = FALSE
    /\ typing_category = NotCategorized
    /\ mouse_category = NotCategorized
    /\ matched = <<>>
    /\ analysis = NoAnalysis
    /\ pending = NoPending
    /\ derived = NoDerived
    /\ InitSession

Init == InitHistory /\ InitIncidents /\ InitAnalyzer

\* the session in which only record_threat writes the history
NextRecord ==
    \E lvl \in ThreatLevelInputs, s \in SampleInputs : RecordThreat(lvl, s)

SpecRecord == Init /\ [][NextRecord]_vars

\* keys handed to set_api_key: the empty string, two blanks, a tab and a
\* newline, and the key "AIza"
ApiKeyInputs ==
    {Key(<<>>), Key(<<32, 32>>), Key(<<9, 10>>), Key(<<65, 73, 122, 97>>)}

\* answers of the language model: each level named at the start (Critical
\* with a full stop behind it), Low named before Critical, "Highest", the
\* phrase with two blanks, the level phrased otherwise, and the call raising
GeminiAnswers ==
    {ThreatLevelText \o LevelText("Critical") \o <<".">>,
     ThreatLevelText \o LevelText("High"),
     ThreatLevelText \o LevelText("Medium"),
     ThreatLevelText \o LevelText("Low"),
     ThreatLevelText \o LevelText("None"),
     ThreatLevelText \o LevelText("Low") \o <<" ">>
         \o ThreatLevelText \o LevelText("Critical"),
     ThreatLevelText \o LevelText("High") \o <<"e", "s", "t">>,
     <<"T", "h", "r", "e", "a", "t", " ", " ", "L", "e", "v", "e", "l", ":", " ">>
         \o LevelText("High"),
     <<"T", "h", "e", " ", "t", "h", "r", "e", "a", "t", " ", "l", "e", "v",
       "e", "l", " ", "i", "s", " ">> \o LevelText("High"),
     GeminiFailure}

\* the session in which the analyzer and the enterprise dashboard both
\* write: a key may be set at any time, and with a key in place every
\* verdict is recorded as an entry and reported as an event
Next ==
    \/ \E key \in ApiKeyInputs : SetApiKey(key)
    \/ BeginAnalysis
    \/ \E answer \in GeminiAnswers : HandleAnalysis(answer)

Spec == Init /\ [][Next]_vars

\* the detector flags handed to record_security_incident
FlagInputs == {<<TRUE, TRUE>>, <<TRUE, FALSE>>, <<FALSE, FALSE>>}

\* The zero-trust session under any sequence of calls of
\* record_security_incident: every level string (the five severities,
\* "Error" and an unrecognized one). The explored sessions draw the flags
\* freely for the incidents of a level other than Critical, whose number
\* MaxOtherLevels bounds; a Critical incident carries both flags.
NextIncident ==
    \E lvl \in ThreatLevelInputs, s \in SampleInputs, f \in FlagInputs :
        /\ lvl = "Critical" => f = <<TRUE, TRUE>>
        /\ RecordSecurityIncident(lvl, s, f[1], f[2])

SpecIncident == Init /\ [][NextIncident]_vars

\* speeds on, next to and between the thresholds
TypingSpeedInputs ==
    {0, 12, 19, 20, 21, 34, 35, 36, 46, 54, 55, 56, 74, 75, 76, 90, 100, 150}

MouseSpeedInputs ==
    {0, 50, 99, 100, 101, 130, 199, 200, 201, 310, 399, 400, 401, 599, 600,
     601, 650, 800, 1000}

\* a sample handed to analyze_threat
InitCategorize ==
    /\ InitHistory /\ InitIncidents
    /\ threat_patterns = DefaultPatterns
    /\ typing_speed \in TypingSpeedInputs
    /\ mouse_speed \in MouseSpeedInputs
    /\ if_is_anomaly = FALSE
    /\ svm_is_anomaly = FALSE
    /\ typing_category = NotCategorized
    /\ mouse_category = NotCategorized
    /\ matched = <<>>
    /\ analysis = NoAnalysis
    /\ pending = NoPending
    /\ derived = NoDerived
    /\ InitSession

NextCategorize == Categorize

SpecCategorize == InitCategorize /\ [][NextCategorize]_vars

\* speeds of high and of low consistency; 5.0 k/s with 300 px/s and
\* 8.2 k/s with 620 px/s lie at the edge
RuleTypingSpeeds == {12, 46, 50, 82, 90}
RuleMouseSpeeds == {130, 300, 310, 620, 650}

\* the arguments of one call of _rule_based_analysis
InitClassify ==
    /\ InitHistory /\ InitIncidents
    /\ threat_patterns \in PatternLibraries
    /\ typing_speed \in RuleTypingSpeeds
    /\ mouse_speed \in RuleMouseSpeeds
    /\ if_is_anomaly \in BOOLEAN
    /\ svm_is_anomaly \in BOOLEAN
    /\ typing_category \in Categories
    /\ mouse_category \in Categories
    /\ matched = <<>>
    /\ analysis = NoAnalysis
    /\ pending = NoPending
    /\ derived = NoDerived
    /\ InitSession

NextClassify == RuleBasedAnalysis

SpecClassify == InitClassify /\ [][NextClassify]_vars

\* the three end-to-end samples, the sample at the consistency edge, and a
\* sample at the edge whose doubles lie less than 2 apart
ScenarioSamples ==
    {<<46, 310>>, <<90, 650>>, <<12, 130>>, <<50, 300>>, <<90, 800>>,
     <<12, 650>>, <<82, 620>>}

\* a sample and the two detector flags handed to analyze_threat
InitAnalyze ==
    /\ InitHistory /\ InitIncidents
    /\ threat_patterns = DefaultPatterns
    /\ \E sample \in ScenarioSamples :
          typing_speed = sample[1] /\ mouse_speed = sample[2]
    /\ if_is_anomaly \in BOOLEAN
    /\ svm_is_anomaly \in BOOLEAN
    /\ typing_category = NotCategorized
    /\ mouse_category = NotCategorized
    /\ matched = <<>>
    /\ analysis = NoAnalysis
    /\ pending = NoPending
    /\ derived = NoDerived
    /\ InitSession

NextAnalyze ==
    \/ \E key \in ApiKeyInputs : SetApiKey(key)
    \/ \E wellformed \in BOOLEAN : AnalyzeThreat(wellformed)
    \/ \E answer \in GeminiAnswers : GenerateContent(answer)

SpecAnalyze == InitAnalyze /\ [][NextAnalyze]_vars

\* raw isolation-forest scores: inside, on the edges of and far beyond the
\* range [-0.5, 1.0] that normalizes into [0, 1]
IfScoreInputs ==
    {-1000000, -1500, -501, -500, -499, -250, -1, 0, 1, 250, 500, 999, 1000,
     1001, 5000, 1000000}

\* raw one-class-SVM scores
SvmScoreInputs == {-1000000, -2000, -1000, -1, 0, 1, 1000, 2000, 1000000}

PredictionInputs == {-1, 1}

\* the scores and predictions of the two detectors for one sample
InitConfidence ==
    /\ InitHistory /\ InitIncidents
    /\ threat_patterns = DefaultPatterns
    /\ typing_speed = 46
    /\ mouse_speed = 310
    /\ if_is_anomaly = FALSE
    /\ svm_is_anomaly = FALSE
    /\ typing_category = NotCategorized
    /\ mouse_category = NotCategorized
    /\ matched = <<>>
    /\ analysis = NoAnalysis
    /\ pending = NoPending
    /\ derived = NoDerived
    /\ api_key = NoApiKey
    /\ if_score \in IfScoreInputs
    /\ if_prediction \in PredictionInputs
    /\ svm_score \in SvmScoreInputs
    /\ svm_prediction \in PredictionInputs
    /\ results = NoResults
    /\ InitThreads
    /\ InitModels
    /\ InitApp

NextConfidence == CompareAlgorithms

SpecConfidence == InitConfidence /\ [][NextConfidence]_vars

\* the levels the two concurrent calls record
ThreadLevels == {"Critical", "Low"}

\* a session that records serially and then runs two record calls at once
NextConcurrent ==
    \/ \E lvl \in {"None", "Critical"}, s \in SampleInputs :
          SerialRecordThreat(lvl, s)
    \/ \E kinds \in [Threads -> RecordKinds],
          levels \in [Threads -> ThreadLevels] : BeginRecords(kinds, levels)
    \/ \E t \in Threads : ThreatBuild(t)
    \/ \E t \in Threads : ThreatAppend(t)
    \/ \E t \in Threads : ThreatCheck(t)
    \/ \E t \in Threads : ThreatPop(t)
    \/ \E t \in Threads : IncidentBuild(t)
    \/ \E t \in Threads : IncidentAppend(t)
    \/ \E t \in Threads : ScoreRead(t)
    \/ \E t \in Threads : ScoreUpdate(t)

SpecConcurrent == Init /\ [][NextConcurrent]_vars

\* two script runs of one session, constructing, fitting and scoring
NextFit ==
    \/ \E t \in Threads : CheckInitialized(t)
    \/ \E t \in Threads : SetupSession(t)
    \/ \E t \in Threads : StoreIsolationForest(t)
    \/ \E t \in Threads : StoreOneClassSvm(t)
    \/ \E t \in Threads : ReadIsolationForest(t)
    \/ \E t \in Threads : ReadOneClassSvm(t)

SpecFit == Init /\ [][NextFit]_vars

\* the same session when the generation of the training data can fail
NextConstruct ==
    \/ NextFit
    \/ \E t \in Threads : GenerateFails(t)

SpecConstruct == Init /\ [][NextConstruct]_vars

\* the session of app.py: a first run and reruns
NextApp == ScriptRun

SpecApp == InitAnalyze /\ [][NextApp]_vars

\* the security dashboard: incidents are recorded and their buttons clicked
NextDashboard ==
    \/ \E s \in SampleInputs :
          RecordSecurityIncident("Critical", s, TRUE, TRUE)
    \/ \E filter_status \in SUBSET StatusOptions, cutoff \in 0..(clock + 1),
          i \in 0..(MaxIncidents - 1), status \in ButtonStatuses :
          ClickIncident(filter_status, cutoff, i, status)

SpecDashboard == Init /\ [][NextDashboard]_vars

----------------------------------------------------------------------------
(* Properties.                                                             *)

Last(s) == s[Len(s)]

\* C1: after any sequence of record_threat and add_threat_event calls the
\* threat history holds at most 50 entries.
C1_HistoryAtMost50 == Len(threat_history) <= 50

\* C2: after n calls of record_threat on an empty history, the history is
\* exactly the last min(n, 50) recorded verdicts, oldest first.
C2_LastFiftyInOrder ==
    LET r == Recorded
        n == Len(r)
        k == IF n < 50 THEN n ELSE 50
    IN  threat_history = SubSeq(r, n - k + 1, n)

\* 51 verdicts recorded, the first of them a Critical one: it is the one
\* evicted, and the 51st is last.
C2_Witness ==
    /\ Len(Recorded) = 51
    /\ Recorded[1].threat_level = "Critical"
    /\ Len(threat_history) = 50
    /\ \A i \in DOMAIN threat_history : threat_history[i] # Recorded[1]
    /\ Last(threat_history) = Recorded[51]

\* C3: the security score stays within [500, 1000].
C3_ScoreInRange == 500 <= security_score /\ security_score <= 1000

\* a Critical incident recorded while the score was already at the floor
C3_Witness ==
    /\ Len(security_incidents) = 8
    /\ \A i \in DOMAIN security_incidents :
          security_incidents[i].threat_level = "Critical"
    /\ security_score = 500

\* C4: the security score never increases: no step of a
\* record_security_incident call, and no other step, stores a score above
\* the one it replaces.
C4_ScoreNeverIncreases == [][security_score' <= security_score]_vars

C5_Penalty(s) ==
    CASE s = "Critical" -> 50
      [] s = "High" -> 30
      [] s = "Medium" -> 15
      [] s = "Low" -> 5
      [] s = "None" -> 0

C5_Clamp(x) == IF x < 500 THEN 500 ELSE IF x > 1000 THEN 1000 ELSE x

\* C5: recording a verdict of severity s appends exactly one incident of that
\* severity and moves the score from p to max(500, min(1000, p - penalty(s))).
C5_RecordStep ==
    [][ /\ Len(security_incidents') = Len(security_incidents) + 1
        /\ \A i \in DOMAIN security_incidents :
              security_incidents'[i] = security_incidents[i]
        /\ LET s == Last(security_incidents').threat_level
           IN  s \in SeverityLevels =>
                 security_score' = C5_Clamp(security_score - C5_Penalty(s))
      ]_vars

\* a Medium incident recorded after seven Critical ones (500): the floor
\* cuts its penalty short
C5_Witness ==
    /\ Len(security_incidents) = 8
    /\ security_incidents[7].threat_level = "Critical"
    /\ Last(security_incidents).threat_level = "Medium"
    /\ security_score = 500

\* the values the conditions of the last analysis were compared with
C6_Derived ==
    Derived(typing_category, mouse_category, typing_speed, mouse_speed,
            if_is_anomaly, svm_is_anomaly)

C6_Rank(level) ==
    CASE level = "Critical" -> 0
      [] level = "High" -> 1
      [] level = "Medium" -> 2
      [] level = "Low" -> 3
      [] level = "None" -> 4

\* C6: the verdict carries the threat level of a matched pattern of minimal
\* rank among the matched patterns, and the library in the opposite
\* definition order gives the same threat level.
C6_SeverityDominance ==
    (clock > 0 /\ matched # <<>>) =>
        /\ \E i \in DOMAIN matched :
              matched[i].threat_level = analysis.threat_level
        /\ \A i \in DOMAIN matched :
              C6_Rank(analysis.threat_level) <= C6_Rank(matched[i].threat_level)
        /\ LET rev == Reverse(threat_patterns)
           IN  VerdictOf(rev, MatchedPatterns(rev, C6_Derived)).threat_level
                  = analysis.threat_level

\* a Low pattern defined first and a High pattern defined later both match
C6_Witness ==
    /\ clock > 0
    /\ Len(matched) >= 2
    /\ matched[1].threat_level = "Low"
    /\ analysis.threat_level = "High"

\* C7: when no pattern matches, the verdict is that of the normal_user
\* pattern, level None; every analysis returns a verdict of a severity level.
C7_Fallback ==
    clock > 0 =>
        /\ analysis.threat_level \in SeverityLevels
        /\ matched = <<>> =>
              /\ analysis.threat_level = "None"
              /\ analysis.description = "Normal user behavior"

\* very fast typing and mouse of low consistency, both detectors flagging:
\* no pattern of the default library matches
C7_Witness ==
    /\ clock > 0
    /\ matched = <<>>
    /\ threat_patterns = DefaultPatterns
    /\ typing_category = "very_fast" /\ mouse_category = "very_fast"
    /\ if_is_anomaly /\ svm_is_anomaly
    /\ analysis.threat_level = "None"

\* a condition set agrees with the derived values on every key it has
C8_Agrees(c, d) == \A k \in DOMAIN c : c[k] = d[k]

C8_Names(m) == {m[i].name : i \in DOMAIN m}

\* C8: a pattern is matched iff one of its condition sets agrees with the
\* derived values on every key it specifies, and it is matched only once.
C8_MatchSemantics ==
    clock > 0 =>
        /\ C8_Names(matched) =
              {threat_patterns[i].name : i \in
                 {j \in DOMAIN threat_patterns :
                    \E n \in DOMAIN threat_patterns[j].conditions :
                       C8_Agrees(threat_patterns[j].conditions[n], C6_Derived)}}
        /\ \A i, j \in DOMAIN matched :
              i # j => matched[i].name # matched[j].name

\* both condition sets of slow_input match and it is matched once, next to
\* bot_pattern, whose consistency key has to agree
C8_Witness ==
    /\ clock > 0
    /\ typing_category = "very_slow" /\ mouse_category = "very_slow"
    /\ Cardinality({i \in DOMAIN matched : matched[i].name = "slow_input"}) = 1
    /\ \E i \in DOMAIN matched : matched[i].name = "flagged"

\* the matched patterns of the most severe matched level, as library indices
C9_Top ==
    {i \in DOMAIN threat_patterns :
        /\ threat_patterns[i].name \in C8_Names(matched)
        /\ \A j \in DOMAIN matched :
              C6_Rank(threat_patterns[i].threat_level)
                 <= C6_Rank(matched[j].threat_level)}

\* C9: when several matched patterns share the most severe level, the one
\* defined first in the library is selected.
C9_StableTieBreak ==
    (clock > 0 /\ Cardinality(C9_Top) >= 2) =>
        \E i \in C9_Top :
            /\ \A j \in C9_Top : i <= j
            /\ analysis.description = threat_patterns[i].description

\* forest_flagged and flagged tie at Medium; forest_flagged is defined first
C9_Witness ==
    /\ clock > 0
    /\ Cardinality(C9_Top) >= 2
    /\ analysis.threat_level = "Medium"
    /\ analysis.description = "Flagged by the isolation forest"
    /\ \E i \in DOMAIN matched : matched[i].name = "flagged"

\* C10: each categorizer returns the one bucket whose interval holds the
\* speed; a speed equal to a threshold is in the higher bucket.
C10_BucketLaw ==
    typing_category # NotCategorized =>
        /\ typing_category \in Categories /\ mouse_category \in Categories
        /\ typing_category = "very_slow" <=> typing_speed < 20
        /\ typing_category = "slow" <=> (20 <= typing_speed /\ typing_speed < 35)
        /\ typing_category = "normal" <=> (35 <= typing_speed /\ typing_speed < 55)
        /\ typing_category = "fast" <=> (55 <= typing_speed /\ typing_speed < 75)
        /\ typing_category = "very_fast" <=> 75 <= typing_speed
        /\ mouse_category = "very_slow" <=> mouse_speed < 100
        /\ mouse_category = "slow" <=> (100 <= mouse_speed /\ mouse_speed < 200)
        /\ mouse_category = "normal" <=> (200 <= mouse_speed /\ mouse_speed < 400)
        /\ mouse_category = "fast" <=> (400 <= mouse_speed /\ mouse_speed < 600)
        /\ mouse_category = "very_fast" <=> 600 <= mouse_speed

\* 3.5 k/s and 600 px/s, both on a threshold
C10_Witness ==
    /\ typing_speed = 35 /\ typing_category = "normal"
    /\ mouse_speed = 600 /\ mouse_category = "very_fast"

\* C11: in the rule-based classification one_algorithm_suspicious is the OR
\* and both_algorithms_suspicious the AND of the two detector flags, and
\* consistency is "high" exactly when typing_speed and mouse_speed/100 differ
\* by strictly less than 2 (here: 10 * tenths and px/s by less than 200), and
\* "low" otherwise: a difference of exactly 2 gives "low".
C11_DerivedPredicates ==
    derived # NoDerived =>
        /\ derived.one_algorithm_suspicious = (if_is_anomaly \/ svm_is_anomaly)
        /\ derived.both_algorithms_suspicious = (if_is_anomaly /\ svm_is_anomaly)
        /\ derived.consistency \in {"high", "low"}
        /\ derived.consistency = "high" <=>
              /\ -200 < 10 * typing_speed - mouse_speed
              /\ 10 * typing_speed - mouse_speed < 200

\* C13: every verdict analyze_threat returns without an error, and every
\* entry of the threat history, carries one of the five severity levels.
C13_LevelsAreSeverities ==
    /\ (analysis # NoAnalysis /\ "error" \notin DOMAIN analysis)
          => analysis.threat_level \in SeverityLevels
    /\ \A i \in DOMAIN threat_history :
          threat_history[i].threat_level \in SeverityLevels

\* the verdict in analysis was built by the rule-based analysis
RuleVerdict == "description" \in DOMAIN analysis

\* C14: the rule-based verdict of analyze_threat on typing_speed 9.0 and
\* mouse_speed 650 with both detectors flagging is Critical, with the
\* description of the automated bot/script pattern.
C14_Scenario2 ==
    (/\ RuleVerdict
     /\ typing_speed = 90 /\ mouse_speed = 650
     /\ if_is_anomaly /\ svm_is_anomaly)
    => /\ analysis.threat_level = "Critical"
       /\ analysis.description =
             PatternNamed(threat_patterns, "bot_pattern").description

\* C15: the rule-based verdict of analyze_threat on typing_speed 1.2 and
\* mouse_speed 130 with exactly one detector flagging is Low or Medium, and
\* never Critical.
C15_Scenario3 ==
    (/\ RuleVerdict
     /\ typing_speed = 12 /\ mouse_speed = 130
     /\ if_is_anomaly # svm_is_anomaly)
    => /\ analysis.threat_level \in {"Low", "Medium"}
       /\ analysis.threat_level # "Critical"

\* C16: the rule-based verdict of analyze_threat on typing_speed 4.6 and
\* mouse_speed 310 with neither detector flagging is None, and the one
\* pattern matched is normal_user.
C16_Scenario1 ==
    (/\ RuleVerdict
     /\ typing_speed = 46 /\ mouse_speed = 310
     /\ ~if_is_anomaly /\ ~svm_is_anomaly)
    => /\ analysis.threat_level = "None"
       /\ Len(matched) = 1
       /\ matched[1].name = "normal_user"

\* the sample of scenario 1 was analysed without a key and its verdict
\* recorded
C16_Witness ==
    /\ RuleVerdict
    /\ typing_speed = 46 /\ mouse_speed = 310
    /\ ~if_is_anomaly /\ ~svm_is_anomaly
    /\ api_key = NoApiKey
    /\ typing_category = "normal" /\ mouse_category = "normal"
    /\ analysis.threat_level = "None"
    /\ Len(threat_history) = 1

\* C17: whatever the raw score and the prediction of a detector, the
\* confidence of its verdict lies in [0, 100] (0 to 3000 thirtieths).
C17_ConfidenceInRange ==
    results # NoResults =>
        /\ 0 <= results.isolation_forest.confidence
        /\ results.isolation_forest.confidence <= 3000
        /\ 0 <= results.one_class_svm.confidence
        /\ results.one_class_svm.confidence <= 3000

\* a raw isolation-forest score of 1000.0 with the verdict anomaly, and a raw
\* SVM score of -1000.0 with the verdict normal: both confidences are cut
\* to 0
C17_Witness ==
    /\ results # NoResults
    /\ if_score = 1000000 /\ if_prediction = -1
    /\ results.isolation_forest.confidence = 0
    /\ svm_score = -1000000 /\ svm_prediction = 1
    /\ results.one_class_svm.confidence = 0

\* clamp(x * 100) in thirtieths of a point, x in 1/3000
C18_Clamp(x) == IF x < 0 THEN 0 ELSE IF x > 3000 THEN 3000 ELSE x

\* C18: with n the normalized score (isolation forest: (raw + 0.5) / 1.5,
\* SVM: the sigmoid of raw), the confidence is clamp(n * 100) when the
\* verdict is normal and clamp((1 - n) * 100) when it is anomaly, and the
\* label is "Suspicious" exactly when the prediction is -1, else "Normal".
C18_ConfidenceOfLabel ==
    results # NoResults =>
        LET n_if == (2 * if_score + 1000)
            n_svm == Sigmoid(svm_score)
            r_if == results.isolation_forest
            r_svm == results.one_class_svm
        IN  /\ r_if.is_anomaly = (if_prediction = -1)
            /\ r_svm.is_anomaly = (svm_prediction = -1)
            /\ r_if.verdict = "Suspicious" <=> if_prediction = -1
            /\ r_if.verdict = "Normal" <=> if_prediction # -1
            /\ r_svm.verdict = "Suspicious" <=> svm_prediction = -1
            /\ r_svm.verdict = "Normal" <=> svm_prediction # -1
            /\ r_if.confidence =
                  IF if_prediction = -1 THEN C18_Clamp(3000 - n_if)
                                        ELSE C18_Clamp(n_if)
            /\ r_svm.confidence =
                  IF svm_prediction = -1 THEN C18_Clamp(3000 - n_svm)
                                         ELSE C18_Clamp(n_svm)

\* raw isolation-forest score -0.25 flagged as anomaly: n is 1/6 and the
\* confidence 83.33; raw SVM score 1.0 judged normal: confidence 73.1
C18_Witness ==
    /\ results # NoResults
    /\ if_score = -250 /\ if_prediction = -1
    /\ results.isolation_forest.verdict = "Suspicious"
    /\ results.isolation_forest.confidence = 2500
    /\ svm_score = 1000 /\ svm_prediction = 1
    /\ results.one_class_svm.verdict = "Normal"
    /\ results.one_class_svm.confidence = 2193

\* a history without its timestamps
C19_Untimed(h) ==
    [i \in DOMAIN h |-> [k \in DOMAIN h[i] \ {"timestamp"} |-> h[i][k]]]

\* the history and the score after the call of thread t ran alone on o
C19_After(o, t) ==
    IF local[t].kind = "threat"
    THEN [o EXCEPT !.threat_history =
             TrimHistory(Append(@, ThreatEntry(0, local[t].threat_level,
                                               local[t].s)))]
    ELSE [o EXCEPT !.security_score = ScoreAfter(@, local[t].threat_level)]

\* the session after the calls of threads a and b ran one after the other
C19_SerialOutcome(a, b) ==
    LET o == C19_After(C19_After([threat_history |-> start.threat_history,
                                  security_score |-> start.security_score],
                                 a), b)
    IN  [threat_history |-> C19_Untimed(o.threat_history),
         security_score |-> o.security_score]

\* C19: when two record calls of one session have run concurrently, their
\* statements interleaved, the history and the score are those of one of
\* the two serial orders, and the history holds at most 50 entries.
C19_Serialized ==
    (\A t \in Threads : pc[t] = "done") =>
        /\ Len(threat_history) <= 50
        /\ \E a \in Threads, b \in Threads :
              /\ a # b
              /\ [threat_history |-> C19_Untimed(threat_history),
                  security_score |-> security_score]
                 = C19_SerialOutcome(a, b)

\* C20: a scoring call never reads the isolation forest of one fit together
\* with the one-class SVM of another, and never reads one model and then
\* finds the other missing.
C20_SnapshotAtomic ==
    \A t \in Threads :
        /\ script_pc[t] = "scored" => if_model[t] = svm_model[t]
        /\ script_pc[t] = "error" => if_model[t] = NoModel

\* C22: a rule-based verdict of level Critical was given for a sample both
\* detectors flagged.
C22_CriticalBothFlagged ==
    (RuleVerdict /\ analysis.threat_level = "Critical")
        => (if_is_anomaly /\ svm_is_anomaly)

\* C23: a rule-based verdict of level None was given for a sample neither
\* detector flagged.
C23_NoneNoFlag ==
    (RuleVerdict /\ analysis.threat_level = "None")
        => (~if_is_anomaly /\ ~svm_is_anomaly)

\* C24: a rule-based verdict of level Medium was given for a sample at least
\* one detector flagged.
C24_MediumOneFlagged ==
    (RuleVerdict /\ analysis.threat_level = "Medium")
        => (if_is_anomaly \/ svm_is_anomaly)

\* C25: every call of analyze_threat that returns a verdict without an
\* 'error' key hands exactly one entry to the threat history, the entry is
\* the last of the history after the call, and it carries the threat level
\* of the returned verdict.
C25_OneEntryPerVerdict ==
    [][(/\ ~pending'.waiting
        /\ pending.waiting \/ api_key' = api_key
        /\ "error" \notin DOMAIN analysis')
        => /\ Len(calls') = Len(calls) + 1
           /\ SubSeq(calls', 1, Len(calls)) = calls
           /\ Last(calls').threat_level = analysis'.threat_level
           /\ threat_history' =
                 TrimHistory(Append(threat_history, Last(calls')))]_vars

\* two verdicts returned: the first by the rule engine (None), the second
\* parsed from the model's answer with a key set (High); the history holds
\* one entry for each
C25_Witness ==
    /\ has_api_key(api_key)
    /\ "timestamp" \in DOMAIN analysis
    /\ analysis.threat_level = "High"
    /\ Len(threat_history) = 2
    /\ threat_history[1].threat_level = "None"
    /\ threat_history[2].threat_level = "High"
    /\ matched # <<>>

\* C26: after every run of app.py the analyzer in use has a key, and a run
\* that handles a click on the analyze button executes the AI threat
\* analysis.
C26_KeyOnEveryRun ==
    script_runs > 0 =>
        /\ has_api_key(api_key)
        /\ last_run.key
        /\ last_run.clicked => last_run.analysed

\* C28: no step of the session raises the enterprise security posture:
\* add_threat_event lowers it or leaves it as it is.
C28_PostureNeverRaised == [][security_posture' <= security_posture]_vars

\* C30: every entry of the shared threat history has all the fields the two
\* readers access, and its level is a key of both readers' level maps.
C30_OneRecordShape ==
    \A i \in 1..Len(threat_history) :
        /\ DashboardFields \subseteq DOMAIN threat_history[i]
        /\ TimelineFields \subseteq DOMAIN threat_history[i]
        /\ threat_history[i].threat_level \in DOMAIN threat_level_map
        /\ threat_history[i].threat_level \in DOMAIN level_map

\* C27: a click on Investigate or Resolve on a displayed incident sets the
\* status of exactly that incident and leaves every other incident as it
\* was, whatever the filter selection.
C27_ClickSetsShownIncident ==
    [][last_click' # last_click =>
          security_incidents' =
              [security_incidents EXCEPT
                  ![last_click'.shown].status = last_click'.status]]_vars

\* C21: a fit on an empty corpus ends in an InsufficientData failure, and a
\* failed generation of the corpus is never replaced by an empty corpus
\* that the fit proceeds on.
C21_EmptyCorpusRejected ==
    /\ normal_baseline # EmptyFrame
    /\ \A t \in Threads : fit_error[t] \in {"none", "InsufficientData"}

\* C29: when the session is marked initialized and no constructor is
\* running, both models are stored, also after a failed construction, so
\* that a scoring call made then finds both.
C29_InitializedHasModels ==
    (/\ zero_trust_initialized
     /\ \A t \in Threads : script_pc[t] \notin {"setup", "fit_if", "fit_svm"})
    => {"isolation_forest", "one_class_svm"} \subseteq DOMAIN behavioral_models

====
